---- MODULE Spec2Model ----
(***************************************************************************)
(* Model of schema_updates.py, which adds an organizationId field, an      *)
(* organization relation and an index to named model blocks of a Prisma    *)
(* schema by three regular-expression substitutions.                       *)
(*                                                                         *)
(* A text is a sequence of one-character strings.  The three patterns of   *)
(* add_organization_id_to_model are kept as data and matched by a          *)
(* backtracking matcher with the priorities of Python's re (lazy: shortest *)
(* first, greedy: longest first); re.sub replaces the leftmost             *)
(* non-overlapping matches.  Spec explores calls of the rewrite on a       *)
(* family of schema documents, MainSpec one run of main on such a file.    *)
(***************************************************************************)
EXTENDS Integers, Sequences, FiniteSets, TLC

VARIABLES
  content,   \* the document held in memory
  file,      \* the text of the schema file on disk
  pc,        \* where main stands: "start", "loop", "write", "done", "failed" ("call" under Spec)
  i,         \* index into models_to_update of the name the for loop handles next
  writes,    \* calls of write_file issued so far
  applied,   \* the names add_organization_id_to_model was called with, in order
  prev,      \* the document before the last call
  orig,      \* the document at the start
  shape      \* the description the start document was built from

vars == <<content, file, pc, i, writes, applied, prev, orig, shape>>

\* ---------------------------------------------------------------- bounds

\* successive calls of add_organization_id_to_model explored on one document
MaxCalls == 2

\* ------------------------------------------------------ character classes

Whitespace == {" ", "\n", "\t", "\r", "\f"}

Letters ==
  {"a","b","c","d","e","f","g","h","i","j","k","l","m","n","o","p","q","r","s","t","u","v","w","x","y","z",
   "A","B","C","D","E","F","G","H","I","J","K","L","M","N","O","P","Q","R","S","T","U","V","W","X","Y","Z"}

Digits == {"0","1","2","3","4","5","6","7","8","9"}

\* \s
cls_space == [neg |-> FALSE, cs |-> Whitespace]

\* any character: what . is under re.DOTALL
cls_any == [neg |-> TRUE, cs |-> {}]

\* [^}]
cls_not_brace == [neg |-> TRUE, cs |-> {"}"}]

\* [a-zA-Z_]
cls_ident_start == [neg |-> FALSE, cs |-> Letters \cup {"_"}]

\* [a-zA-Z0-9_]
cls_ident_char == [neg |-> FALSE, cs |-> Letters \cup Digits \cup {"_"}]

InClass(cl, c) == IF cl.neg THEN c \notin cl.cs ELSE c \in cl.cs

\* ------------------------------------------------------------ regex items

Lit(s) == [t |-> "lit", s |-> s, cl |-> cls_space]

One(cl) == [t |-> "one", s |-> <<>>, cl |-> cl]

LazyStar(cl) == [t |-> "lazy", s |-> <<>>, cl |-> cl]

GreedyStar(cl) == [t |-> "star", s |-> <<>>, cl |-> cl]

GreedyPlus(cl) == [t |-> "plus", s |-> <<>>, cl |-> cl]

\* ---------------------------------------------------------------- matcher

LitAt(text, s, p) ==
  /\ p + Len(s) - 1 <= Len(text)
  /\ \A k \in 1..Len(s) : text[p + k - 1] = s[k]

\* first position at or after p whose character is not in the class
RunEnd(text, cl, p) ==
  CHOOSE q \in p..(Len(text) + 1) :
    /\ q = Len(text) + 1 \/ ~InClass(cl, text[q])
    /\ \A r \in p..(q - 1) : InClass(cl, text[r])

NoMatch == <<>>

RECURSIVE MatchFrom(_, _, _, _, _), FirstUp(_, _, _, _, _, _), FirstDown(_, _, _, _, _, _)

\* items k.. of the pattern against the text at p; mid is where group 2 began.
\* The result is <<start of group 2, end of the match>> or NoMatch.
MatchFrom(text, pat, k, p, mid) ==
  LET m == IF k = pat.split + 1 THEN p ELSE mid IN
  IF k > Len(pat.items) THEN <<m, p>>
  ELSE LET it == pat.items[k] IN
    CASE it.t = "lit" ->
           IF LitAt(text, it.s, p) THEN MatchFrom(text, pat, k + 1, p + Len(it.s), m)
           ELSE NoMatch
      [] it.t = "one" ->
           IF p <= Len(text) /\ InClass(it.cl, text[p])
           THEN MatchFrom(text, pat, k + 1, p + 1, m) ELSE NoMatch
      [] it.t = "lazy" -> FirstUp(text, pat, k, p, RunEnd(text, it.cl, p), m)
      [] it.t = "star" -> FirstDown(text, pat, k, p, RunEnd(text, it.cl, p), m)
      [] it.t = "plus" ->
           LET e == RunEnd(text, it.cl, p) IN
           IF e > p THEN FirstDown(text, pat, k, p + 1, e, m) ELSE NoMatch

\* X*? : item k ends at the first q of lo..hi, shortest first, from which the
\* rest of the pattern matches (the range is halved to keep the nesting shallow)
FirstUp(text, pat, k, lo, hi, m) ==
  IF lo = hi THEN MatchFrom(text, pat, k + 1, lo, m)
  ELSE LET h == (lo + hi) \div 2
           r == FirstUp(text, pat, k, lo, h, m)
       IN  IF r # NoMatch THEN r ELSE FirstUp(text, pat, k, h + 1, hi, m)

\* X* and X+ : the same, longest first
FirstDown(text, pat, k, lo, hi, m) ==
  IF lo = hi THEN MatchFrom(text, pat, k + 1, lo, m)
  ELSE LET h == (lo + hi) \div 2
           r == FirstDown(text, pat, k, h + 1, hi, m)
       IN  IF r # NoMatch THEN r ELSE FirstDown(text, pat, k, lo, h, m)

\* the leftmost match that starts in lo..hi: <<start, start of group 2, end>>
RECURSIVE Search(_, _, _, _)
Search(text, pat, lo, hi) ==
  IF lo > hi THEN NoMatch
  ELSE IF lo = hi
       THEN LET r == MatchFrom(text, pat, 1, lo, lo) IN
            IF r = NoMatch THEN NoMatch ELSE <<lo>> \o r
       ELSE LET h == (lo + hi) \div 2
                r == Search(text, pat, lo, h)
            IN  IF r # NoMatch THEN r ELSE Search(text, pat, h + 1, hi)

\* the template without its \2: \1<ins>
Expand_drop_group2(g1, ins, g2) == g1 \o ins

\* expansion of the template \1<ins>\2
Expand(g1, ins, g2) == g1 \o ins \o g2

\* re.sub(pattern, repl, content): leftmost non-overlapping matches, left to right
RECURSIVE SubFrom(_, _, _, _)
SubFrom(text, pat, ins, s) ==
  LET r == Search(text, pat, s, Len(text)) IN
  IF r = NoMatch THEN SubSeq(text, s, Len(text))
  ELSE SubSeq(text, s, r[1] - 1)
         \o Expand(SubSeq(text, r[1], r[2] - 1), ins, SubSeq(text, r[2], r[3] - 1))
         \o SubFrom(text, pat, ins, r[3])

re_sub(pat, ins, text) == SubFrom(text, pat, ins, 1)

\* ------------------------------------------- add_organization_id_to_model

\* the block's keyword left out of the pattern: '{model_name} \{'
model_open_no_keyword(model_name) == <<Lit(<<>>), Lit(model_name), Lit(<<" ","{">>)>>

\* 'model {model_name} \{'
model_open(model_name) == <<Lit(<<"m","o","d","e","l"," ">>), Lit(model_name), Lit(<<" ","{">>)>>

model_pattern(model_name) ==
  [items |-> model_open(model_name) \o
             <<LazyStar(cls_not_brace), Lit(<<"c","r","e","a","t","e","d","B","y","I","d">>), GreedyPlus(cls_space),
               Lit(<<"S","t","r","i","n","g">>), LazyStar(cls_not_brace),
               GreedyPlus(cls_space), Lit(<<"/","/"," ","R","e","l","a","t","i","o","n","s">>)>>,
   split |-> 8]

replacement == <<"\n"," "," ","o","r","g","a","n","i","z","a","t","i","o","n","I","d"," "," ","S","t","r","i","n","g","?"," "," "," ","/","/"," ","M","a","d","e"," ","o","p","t","i","o","n","a","l"," ","f","o","r"," ","s","a","f","e"," ","m","i","g","r","a","t","i","o","n">>

relation_items(model_name) ==
  model_open(model_name) \o
    <<LazyStar(cls_not_brace), Lit(<<"/","/"," ","R","e","l","a","t","i","o","n","s">>), LazyStar(cls_not_brace),
      Lit(<<"c","r","e","a","t","e","d","B","y">>), LazyStar(cls_not_brace),
      GreedyPlus(cls_space), One(cls_ident_start), GreedyStar(cls_ident_char),
      GreedyPlus(cls_space), LazyStar(cls_not_brace), Lit(<<"[","]">>)>>

\* the second group misplaced: it opens only after the list-typed field
relation_pattern_late_group(model_name) ==
  [items |-> relation_items(model_name), split |-> Len(relation_items(model_name))]

relation_pattern(model_name) == [items |-> relation_items(model_name), split |-> 8]

org_relation == <<"\n"," "," ","o","r","g","a","n","i","z","a","t","i","o","n"," "," "," "," ","O","r","g","a","n","i","z","a","t","i","o","n","?"," ","@","r","e","l","a","t","i","o","n","(","f","i","e","l","d","s",":"," ","[","o","r","g","a","n","i","z","a","t","i","o","n","I","d","]",","," ","r","e","f","e","r","e","n","c","e","s",":"," ","[","i","d","]",")">>

index_pattern(model_name) ==
  [items |-> model_open(model_name) \o <<LazyStar(cls_not_brace), Lit(<<"}">>)>>,
   split |-> 4]

index_replacement == <<"\n","\n"," "," ","@","@","i","n","d","e","x","(","[","o","r","g","a","n","i","z","a","t","i","o","n","I","d","]",")">>

field_pass(text, model_name) == re_sub(model_pattern(model_name), replacement, text)

relation_pass(text, model_name) == re_sub(relation_pattern(model_name), org_relation, text)

index_pass(text, model_name) == re_sub(index_pattern(model_name), index_replacement, text)

add_organization_id_to_model(text, model_name) ==
  index_pass(relation_pass(field_pass(text, model_name), model_name), model_name)

\* ------------------------------------------------------------------- main

models_to_update ==
  <<<<"S","e","g","m","e","n","t">>, <<"E","m","a","i","l","T","e","m","p","l","a","t","e">>, <<"S","M","S","C","a","m","p","a","i","g","n">>, <<"W","h","a","t","s","A","p","p","C","a","m","p","a","i","g","n">>, <<"W","o","r","k","f","l","o","w">>,
    <<"T","a","s","k">>, <<"J","o","u","r","n","e","y">>, <<"A","I","_","C","o","n","t","e","n","t","A","n","a","l","y","s","i","s">>, <<"A","I","_","C","u","s","t","o","m","e","r","S","e","g","m","e","n","t">>, <<"A","I","_","C","h","a","t","H","i","s","t","o","r","y">>,
    <<"L","e","a","d","P","u","l","s","e","V","i","s","i","t","o","r">>, <<"L","e","a","d","P","u","l","s","e","T","o","u","c","h","p","o","i","n","t">>, <<"C","o","n","v","e","r","s","i","o","n","E","v","e","n","t">>, <<"C","o","n","v","e","r","s","i","o","n","T","r","a","c","k","i","n","g">>,
    <<"C","o","n","v","e","r","s","i","o","n","F","u","n","n","e","l">>, <<"P","r","e","d","i","c","t","i","o","n","M","o","d","e","l">>, <<"C","h","u","r","n","P","r","e","d","i","c","t","i","o","n">>,
    <<"L","i","f","e","t","i","m","e","V","a","l","u","e","P","r","e","d","i","c","t","i","o","n">>, <<"C","o","n","t","a","c","t","J","o","u","r","n","e","y">>>>

\* the loop left after its first turn
LoopDone_after_first == i > 1

\* the for loop of main has run through the whole list
LoopDone == i > Len(models_to_update)

\* -------------------------------------------------------------- documents
\* The schema files the properties are checked on.

\* A block is described by what its body holds; the text is built from that.
\*   field  : the anchor field "createdById String" (else a plain "id String")
\*   marker : the "// Relations" comment
\*   rel    : the anchor relation createdBy: "none", "req" (type User), "opt" (type User?)
\*   list   : a list-typed field "members Member[]"
\*   brace  : a field whose default value holds braces, "none", "top" or "bottom"
\* The lines stand in the order: brace(top), field, marker, rel, list, brace(bottom).

name_Task == <<"T","a","s","k">>

name_Journey == <<"J","o","u","r","n","e","y">>

name_ContactJourney == <<"C","o","n","t","a","c","t","J","o","u","r","n","e","y">>

name_User == <<"U","s","e","r">>

line_brace == <<" "," ","m","e","t","a"," ","J","s","o","n"," ","@","d","e","f","a","u","l","t","(","\"","{","}","\"",")","\n">>

line_id == <<" "," ","i","d"," ","S","t","r","i","n","g","\n">>

line_createdById == <<" "," ","c","r","e","a","t","e","d","B","y","I","d"," ","S","t","r","i","n","g","\n">>

line_marker == <<" "," ","/","/"," ","R","e","l","a","t","i","o","n","s","\n">>

line_createdBy_req == <<" "," ","c","r","e","a","t","e","d","B","y"," ","U","s","e","r"," ","@","r","e","l","a","t","i","o","n","(","f","i","e","l","d","s",":"," ","[","c","r","e","a","t","e","d","B","y","I","d","]",","," ","r","e","f","e","r","e","n","c","e","s",":"," ","[","i","d","]",")","\n">>

line_createdBy_opt == <<" "," ","c","r","e","a","t","e","d","B","y"," ","U","s","e","r","?"," ","@","r","e","l","a","t","i","o","n","(","f","i","e","l","d","s",":"," ","[","c","r","e","a","t","e","d","B","y","I","d","]",","," ","r","e","f","e","r","e","n","c","e","s",":"," ","[","i","d","]",")","\n">>

line_list == <<" "," ","m","e","m","b","e","r","s"," ","M","e","m","b","e","r","[","]","\n">>

BlockText(b) ==
  <<"m","o","d","e","l"," ">> \o b.name \o <<" ","{","\n">>
    \o (IF b.brace = "top" THEN line_brace ELSE <<>>)
    \o (IF b.field THEN line_createdById ELSE line_id)
    \o (IF b.marker THEN line_marker ELSE <<>>)
    \o (CASE b.rel = "req" -> line_createdBy_req
          [] b.rel = "opt" -> line_createdBy_opt
          [] OTHER -> <<>>)
    \o (IF b.list THEN line_list ELSE <<>>)
    \o (IF b.brace = "bottom" THEN line_brace ELSE <<>>)
    \o <<"}","\n">>

RECURSIVE DocText(_)
DocText(sh) == IF sh = <<>> THEN <<>> ELSE BlockText(Head(sh)) \o DocText(Tail(sh))

FirstBlocks ==
  [name : {name_Task}, field : BOOLEAN, marker : BOOLEAN,
   rel : {"none", "req", "opt"}, list : BOOLEAN, brace : {"none", "top", "bottom"}]

Anchored(n) ==
  [name |-> n, field |-> TRUE, marker |-> TRUE, rel |-> "req", list |-> TRUE, brace |-> "none"]

ExtraBlocks ==
  {Anchored(name_Task), Anchored(name_Journey), Anchored(name_ContactJourney), Anchored(name_User)}

\* a document is one block of any shape, alone or followed by one more block
DocShapes == {<<b>> : b \in FirstBlocks} \cup {<<b, e>> : b \in FirstBlocks, e \in ExtraBlocks}

CallNames == {name_Task, name_Journey}

\* ------------------------------------------- specification of the rewrite
\* One document, and up to MaxCalls successive calls of
\* add_organization_id_to_model on it, each with any of CallNames.

Init ==
  /\ shape \in DocShapes
  /\ content = DocText(shape)
  /\ orig = content
  /\ prev = content
  /\ file = content
  /\ applied = <<>>
  /\ pc = "call"
  /\ i = 0
  /\ writes = 0

Call(model_name) ==
  /\ pc = "call"
  /\ Len(applied) < MaxCalls
  /\ content' = add_organization_id_to_model(content, model_name)
  /\ prev' = content
  /\ applied' = Append(applied, model_name)
  /\ UNCHANGED <<file, pc, i, writes, orig, shape>>

Next == \E model_name \in CallNames : Call(model_name)

Spec == Init /\ [][Next]_vars

\* ---------------------------------------------------- specification of main
\* One run of main on a schema file.  read_file and write_file can raise, and
\* so can a rewrite (out of memory, an interrupt): the run then ends "failed".

MainInit ==
  /\ shape \in DocShapes
  /\ file = DocText(shape)
  /\ orig = file
  /\ prev = <<>>
  /\ content = <<>>
  /\ applied = <<>>
  /\ pc = "start"
  /\ i = 0
  /\ writes = 0

\* content = read_file(schema_path)
ReadFile ==
  /\ pc = "start"
  /\ content' = file
  /\ prev' = file
  /\ i' = 1
  /\ pc' = "loop"
  /\ UNCHANGED <<file, writes, applied, orig, shape>>

\* open(filepath, 'r') raises
ReadFail ==
  /\ pc = "start"
  /\ pc' = "failed"
  /\ UNCHANGED <<content, file, i, writes, applied, prev, orig, shape>>

\* one turn of the for loop
Rewrite ==
  /\ pc = "loop"
  /\ ~LoopDone
  /\ content' = add_organization_id_to_model(content, models_to_update[i])
  /\ prev' = content
  /\ applied' = Append(applied, models_to_update[i])
  /\ i' = i + 1
  /\ UNCHANGED <<file, pc, writes, orig, shape>>

\* an error raised inside a turn of the loop
RewriteFail ==
  /\ pc = "loop"
  /\ ~LoopDone
  /\ pc' = "failed"
  /\ UNCHANGED <<content, file, i, writes, applied, prev, orig, shape>>

\* write_file: open(filepath, 'w') truncates the file
WriteOpen ==
  /\ pc = "loop"
  /\ LoopDone
  /\ writes' = writes + 1
  /\ file' = <<>>
  /\ pc' = "write"
  /\ UNCHANGED <<content, i, applied, prev, orig, shape>>

\* write_file: open(filepath, 'w') raises, the file is not touched
WriteOpenFail ==
  /\ pc = "loop"
  /\ LoopDone
  /\ writes' = writes + 1
  /\ pc' = "failed"
  /\ UNCHANGED <<content, file, i, applied, prev, orig, shape>>

\* write_file: f.write(content) and the close
WriteData ==
  /\ pc = "write"
  /\ file' = content
  /\ pc' = "done"
  /\ UNCHANGED <<content, i, writes, applied, prev, orig, shape>>

\* write_file: f.write raises after the truncation
WriteDataFail ==
  /\ pc = "write"
  /\ pc' = "failed"
  /\ UNCHANGED <<content, file, i, writes, applied, prev, orig, shape>>

MainNext ==
  \/ ReadFile
  \/ ReadFail
  \/ Rewrite
  \/ RewriteFail
  \/ WriteOpen
  \/ WriteOpenFail
  \/ WriteData
  \/ WriteDataFail

MainSpec == MainInit /\ [][MainNext]_vars

\* ================================================================ properties

\* ---------------------------------------------------- text, read directly

Occ(text, s) == {p \in 1..Len(text) : LitAt(text, s, p)}

Count(text, s) == Cardinality(Occ(text, s))

Contains(text, s) == \E p \in 1..Len(text) : LitAt(text, s, p)

OpenText(model_name) == <<"m","o","d","e","l"," ">> \o model_name \o <<" ","{">>

LineStarts(text) == {p \in 1..Len(text) : p = 1 \/ text[p - 1] = "\n"}

LineAt(text, p) == SubSeq(text, p, RunEnd(text, [neg |-> TRUE, cs |-> {"\n"}], p) - 1)

\* how many lines of the text are exactly this line
LineCount(text, line) == Cardinality({p \in LineStarts(text) : LineAt(text, p) = line})

new_field_line == Tail(replacement)

new_relation_line == Tail(org_relation)

new_index_line == Tail(Tail(index_replacement))

BlocksNamed(n) == {k \in 1..Len(shape) : shape[k].name = n}

HasAnchors(b) == b.field /\ b.marker /\ b.rel # "none" /\ b.list

OneCall(n) == pc = "call" /\ applied = <<n>>

\* -------------------------------------------------------------------- C1
\* C1: a document with exactly one block of X, free of inner braces and holding
\* the four anchors, has after one call exactly one new field line, one new
\* relation line and one new index line, each a complete line of its own, and
\* every line that was there before (the closing brace too) is still a line.
C1_ThreeWholeLines ==
  (/\ OneCall(name_Task)
   /\ BlocksNamed(name_Task) = {1}
   /\ HasAnchors(shape[1])
   /\ shape[1].brace = "none")
  => /\ LineCount(content, new_field_line) = 1
     /\ LineCount(content, new_relation_line) = 1
     /\ LineCount(content, new_index_line) = 1
     /\ \A p \in LineStarts(orig) : LineCount(content, LineAt(orig, p)) >= 1

\* -------------------------------------------------------------------- C2
\* C2: when the block of X lacks the anchor content (no createdById String, or
\* no // Relations marker) one call leaves the block textually unchanged
\* (read here on blocks without an inner brace).
C2_NoAnchorNoChange ==
  (/\ OneCall(name_Task)
   /\ BlocksNamed(name_Task) = {1}
   /\ shape[1].brace = "none"
   /\ ~shape[1].field \/ ~shape[1].marker)
  => Contains(content, BlockText(shape[1]))

\* -------------------------------------------------------------------- C3
\* C3: a call with a name X whose opening text "model X {" occurs nowhere in
\* the document returns the document as it was, also when the block of another
\* model has a name that ends with X.
C3_AbsentNameIdentity ==
  (/\ pc = "call"
   /\ applied # <<>>
   /\ ~Contains(prev, OpenText(applied[Len(applied)])))
  => content = prev

C3_Witness ==
  /\ OneCall(name_Journey)
  /\ Contains(prev, OpenText(name_ContactJourney))
  /\ ~Contains(prev, OpenText(name_Journey))
  /\ content = prev

\* -------------------------------------------------------------------- C6
\* C6: on a document whose blocks of X hold the four anchors, a second call
\* with X changes the result of the first and leaves two copies of the field
\* line, of the relation line and of the index annotation per block of X.
C6_SecondCallDuplicates ==
  (/\ pc = "call"
   /\ applied = <<name_Task, name_Task>>
   /\ \A k \in BlocksNamed(name_Task) : HasAnchors(shape[k]))
  => /\ content # prev
     /\ Count(content, replacement) = 2 * Cardinality(BlocksNamed(name_Task))
     /\ Count(content, org_relation) = 2 * Cardinality(BlocksNamed(name_Task))
     /\ Count(content, index_replacement) = 2 * Cardinality(BlocksNamed(name_Task))

\* -------------------------------------------------------------------- C7
\* C7: whenever the relation pass matches, the anchor relation createdBy keeps
\* its complete declaration as one line, the new relation line follows it and
\* stands directly ahead of the line of the list-typed field (read here on
\* blocks without an inner brace).
RelationPassMatched ==
  relation_pass(field_pass(orig, name_Task), name_Task) # field_pass(orig, name_Task)

C7_RelationAfterAnchorLine ==
  (/\ OneCall(name_Task)
   /\ Len(shape) = 1
   /\ shape[1].brace = "none"
   /\ RelationPassMatched)
  => Contains(content,
       (IF shape[1].rel = "opt" THEN line_createdBy_opt ELSE line_createdBy_req)
         \o new_relation_line \o <<"\n">> \o line_list)

\* -------------------------------------------------------------------- C8
\* C8: one call inserts the index annotation once per block of X, each time
\* immediately before the brace that closes the block (the brace that is
\* followed by the end of the line and then by the next block or the end of the
\* document), also when the body holds a brace of its own.
C8_IndexBeforeClosingBrace ==
  OneCall(name_Task)
  => /\ Count(content, index_replacement) = Cardinality(BlocksNamed(name_Task))
     /\ \A p \in Occ(content, index_replacement) :
          LET q == p + Len(index_replacement) IN
          /\ LitAt(content, <<"}","\n">>, q)
          /\ q + 2 > Len(content) \/ LitAt(content, <<"m","o","d","e","l"," ">>, q + 2)

\* ------------------------------------------------------------------- C10
\* The text with every copy of the three inserted strings taken out, leftmost first.
InsertAt(text, p) ==
  IF LitAt(text, replacement, p) THEN Len(replacement)
  ELSE IF LitAt(text, org_relation, p) THEN Len(org_relation)
  ELSE IF LitAt(text, index_replacement, p) THEN Len(index_replacement)
  ELSE 0

RECURSIVE Strip(_)
Strip(text) ==
  LET at == {p \in 1..Len(text) : InsertAt(text, p) > 0} IN
  IF at = {} THEN text
  ELSE LET p == CHOOSE x \in at : \A y \in at : x <= y IN
       SubSeq(text, 1, p - 1) \o Strip(SubSeq(text, p + InsertAt(text, p), Len(text)))

\* C10: whatever names are called, and however often, the rewrite only inserts:
\* the start document is what is left when the copies of the three inserted
\* strings are taken out, and no call makes the document shorter.
C10_InsertOnly ==
  pc = "call"
  => /\ Strip(content) = orig
     /\ Len(content) >= Len(prev)
     /\ Len(content) = Len(orig) + Count(content, replacement) * Len(replacement)
                         + Count(content, org_relation) * Len(org_relation)
                         + Count(content, index_replacement) * Len(index_replacement)

C10_Witness ==
  /\ pc = "call"
  /\ Len(applied) = MaxCalls
  /\ Count(content, replacement) >= 2
  /\ Count(content, org_relation) >= 2
  /\ Count(content, index_replacement) >= 2
  /\ Strip(content) = orig

\* ================================================= properties of main

Range(f) == {f[k] : k \in DOMAIN f}

\* -------------------------------------------------------------------- C4
\* C4: write_file is called at most once, only after the rewrite has been
\* applied for every name of models_to_update in turn; while no write has been
\* issued the file holds its original text, and a run that ends normally has
\* issued exactly one write, of the rewritten document.
C4_WriteOnceAfterAllRewrites ==
  /\ writes <= 1
  /\ writes = 1 => applied = models_to_update
  /\ writes = 0 => file = orig
  /\ pc = "done" => writes = 1 /\ file = content

C4_Witness ==
  /\ pc = "done"
  /\ writes = 1
  /\ applied = models_to_update
  /\ file # orig

\* -------------------------------------------------------------------- C5
\* the needles occur in the text one after the other, without overlap
RECURSIVE InOrderFrom(_, _, _)
InOrderFrom(text, needles, from) ==
  IF needles = <<>> THEN TRUE
  ELSE LET at == {p \in from..Len(text) : LitAt(text, Head(needles), p)} IN
       /\ at # {}
       /\ InOrderFrom(text, Tail(needles),
                      (CHOOSE x \in at : \A y \in at : x <= y) + Len(Head(needles)))

InOrder(text, needles) == InOrderFrom(text, needles, 1)

MinimalBlock(b) == b.field /\ b.marker /\ b.list /\ b.brace = "none"

\* C5 as stated: a minimal document (one block: the field line, the marker,
\* one list-typed field) comes out of the pipeline holding, in this order, the
\* field, the new field, the marker, the new relation, the list-typed field,
\* the index annotation and the closing brace.
C5_MinimalDocumentOrder ==
  (/\ pc = "done"
   /\ Len(shape) = 1
   /\ MinimalBlock(shape[1])
   /\ shape[1].rel = "none")
  => InOrder(file, <<<<"c","r","e","a","t","e","d","B","y","I","d"," ","S","t","r","i","n","g">>, replacement, <<"/","/"," ","R","e","l","a","t","i","o","n","s">>, org_relation,
                     <<"m","e","m","b","e","r","s"," ","M","e","m","b","e","r","[","]">>, index_replacement, <<"}">>>>)

\* C5 amended: the same for a document whose block also holds the anchor
\* relation createdBy between the marker and the list-typed field; each of the
\* three insertions is made once.
C5_AnchoredDocumentOrder ==
  (/\ pc = "done"
   /\ Len(shape) = 1
   /\ MinimalBlock(shape[1])
   /\ shape[1].rel # "none")
  => /\ InOrder(file, <<<<"c","r","e","a","t","e","d","B","y","I","d"," ","S","t","r","i","n","g">>, replacement, <<"/","/"," ","R","e","l","a","t","i","o","n","s">>, <<"c","r","e","a","t","e","d","B","y">>,
                        org_relation, <<"m","e","m","b","e","r","s"," ","M","e","m","b","e","r","[","]">>, index_replacement, <<"}">>>>)
     /\ Count(file, replacement) = 1
     /\ Count(file, org_relation) = 1
     /\ Count(file, index_replacement) = 1

C5_Witness ==
  /\ pc = "done"
  /\ Len(shape) = 1
  /\ MinimalBlock(shape[1])
  /\ shape[1].rel = "req"
  /\ Contains(file, org_relation)

\* -------------------------------------------------------------------- C9
NoInnerBrace == \A k \in 1..Len(shape) : shape[k].brace = "none"

\* the text without the blocks of the given names, a block running from its
\* opening text "model N {" to the next closing brace
RECURSIVE Outside(_, _)
Outside(text, names) ==
  LET at == {p \in Occ(text, <<"m","o","d","e","l"," ">>) :
               \E n \in names : LitAt(text, n \o <<" ","{">>, p + Len(<<"m","o","d","e","l"," ">>))} IN
  IF at = {} THEN text
  ELSE LET p == CHOOSE x \in at : \A y \in at : x <= y
           e == RunEnd(text, [neg |-> TRUE, cs |-> {"}"}], p)
       IN  SubSeq(text, 1, p - 1) \o Outside(SubSeq(text, e + 1, Len(text)), names)

RECURSIVE RunAll(_, _)
RunAll(text, names) ==
  IF names = <<>> THEN text
  ELSE LET t == add_organization_id_to_model(text, Head(names)) IN
       IF Len(t) >= 0 THEN RunAll(t, Tail(names)) ELSE t

Reverse(seq) == [k \in 1..Len(seq) |-> seq[Len(seq) + 1 - k]]

\* C9: on a document whose blocks hold no inner brace, a call with X changes
\* nothing outside the blocks of X; every block whose name has not been
\* processed is textually the original one (so are, at the end, the blocks
\* whose names are not in the list); and the text written is the one the list
\* taken in the opposite order yields.
C9_OtherBlocksUntouched ==
  (NoInnerBrace /\ applied # <<>>)
  => /\ Outside(content, {applied[Len(applied)]}) = Outside(prev, {applied[Len(applied)]})
     /\ \A k \in 1..Len(shape) :
          shape[k].name \notin Range(applied) => Contains(content, BlockText(shape[k]))
     /\ pc = "done" => file = RunAll(orig, Reverse(models_to_update))

C9_Witness ==
  /\ pc = "done"
  /\ NoInnerBrace
  /\ Len(shape) = 2
  /\ shape[2].name = name_User
  /\ Contains(file, BlockText(shape[2]))
  /\ Count(file, index_replacement) = 1
  /\ file # orig

====
